---- MODULE Spec2Model ----
(***************************************************************************)
(* AI-NEWS-MAILER: the aggregation pipeline of src/src/news_aggregator.py   *)
(* (main) and src/.github/src/rss_aggregator.py (fetch, parse, filter,       *)
(* deduplicate, rank).                                                      *)
(*                                                                          *)
(* Conventions of the model                                                 *)
(*  - a title or a summary text is the sequence of its whitespace-separated *)
(*    words (what str.split() yields); the empty sequence is the empty or   *)
(*    whitespace-only string;                                               *)
(*  - a Python dict is a TLA+ record; a missing key is a missing field;     *)
(*  - a point in time is its age in minutes relative to datetime.now(),     *)
(*    negative for a time in the future;                                    *)
(*  - a float score is kept exactly, as an integer multiple of 1/ScoreScale;*)
(*  - an uncaught exception ends the run: pc = "crashed", error names it.   *)
(***************************************************************************)
EXTENDS Integers, Sequences, FiniteSets, TLC

VARIABLES
    pc,               \* position of the run
    sources_file,     \* config/sources.json as found on disk
    recipients_file,  \* config/recipients.json as found on disk
    sources,          \* main: sources
    recipients,       \* main: recipients
    src_i,            \* fetch_all_news: number of sources already attempted
    fetch_log,        \* fetch_all_news: what each attempted source returned
    all_articles,     \* main: all_articles (remove_duplicates: articles)
    unique_articles,  \* main: unique_articles (rank_articles: articles)
    top_articles,     \* main: top_articles
    limit,            \* rank_articles: limit
    passes,           \* number of completed remove_duplicates calls
    error,            \* the uncaught exception, "none" when there is none
    failed_in,        \* the function the uncaught exception came from
    notifier_calls,   \* the (articles, recipients) handed to send_daily_digest
    stages,           \* main: the steps that completed, in the order logged
    gmail_env,        \* send_daily_digest: GMAIL_USER and GMAIL_PASS are set
    msg_to,           \* send_daily_digest: the To headers msg carries
    rcpt_i,           \* send_daily_digest: number of recipients attempted
    successful_sends, \* send_daily_digest: successful_sends
    sendmail_log,     \* the messages handed to server.sendmail, in order
    server,           \* send_daily_digest: the SMTP session
    returned          \* <<v>> once the function under study returned v

vars == <<pc, sources_file, recipients_file, sources, recipients, src_i,
          fetch_log, all_articles, unique_articles, top_articles, limit,
          passes, error, failed_in, notifier_calls, stages, gmail_env,
          msg_to, rcpt_i, successful_sends, sendmail_log, server, returned>>

\* the state of send_daily_digest
send_vars ==
    <<gmail_env, msg_to, rcpt_i, successful_sends, sendmail_log, server,
      returned>>

-----------------------------------------------------------------------------
(* Bounds of the model *)

MaxLen == 3          \* longest article list handed to remove_duplicates / rank_articles
MaxLimit == 4        \* largest limit handed to rank_articles on its own
MaxFeedLen == 9      \* longest raw feed (one more than the per-source cap)
MaxRejected == 2     \* most entries of one raw feed that are not admitted
MaxSources == 2      \* longest configured source list
MaxRecipients == 2   \* longest configured recipient list
MaxSendList == 3     \* longest recipient list handed to send_daily_digest
MaxSkew == 90        \* minutes around now and around the recency cutoff

(* Program constants *)

EntriesPerSource == 8     \* feed.entries[:8]
RecencyWindowMin == 2880  \* timedelta(hours=48), in minutes
DefaultWeight == 5        \* source.get('weight', 5)
SummaryCut == 300         \* summary[:300] + '...'
DigestLimit == 10         \* rank_articles(unique_articles, limit=10)
ScoreScale == 12000       \* one score point, in model units

-----------------------------------------------------------------------------
(* Text *)

Max(a, b) == IF a >= b THEN a ELSE b
Min(a, b) == IF a <= b THEN a ELSE b

\* str.lower() on the words of the model's vocabulary
Lower(w) ==
    CASE w = "AI" -> "ai"
      [] w = "New" -> "new"
      [] w = "GPT" -> "gpt"
      [] w = "Launch" -> "launch"
      [] OTHER -> w

\* set(title.lower().split())
TitleWords(title) == { Lower(title[i]) : i \in 1..Len(title) }

\* The lowercase words of the vocabulary that contain one of is_ai_related's
\* keywords as a substring ("again" contains "ai": substring matching).
AIWords == {"ai", "again", "gpt", "llm", "openai"}

\* is_ai_related(title, summary): any keyword in (title + ' ' + summary).lower()
is_ai_related(title, summary) ==
    \E w \in TitleWords(title) \cup TitleWords(summary.words) : w \in AIWords

\* kw in title_lower, for the keywords of rank_articles: a keyword has no
\* blank in it, so it occurs in the title iff it occurs in one of its words.
KeywordsIn(w) ==
    CASE w = "new" -> {"new"}
      [] w = "news" -> {"new"}
      [] w = "launch" -> {"launch"}
      [] w = "first" -> {"first"}
      [] w = "release" -> {"release"}
      [] w = "breakthrough" -> {"breakthrough"}
      [] w = "announce" -> {"announce"}
      [] OTHER -> {}

high_value_keywords ==
    {"breakthrough", "launch", "release", "announce", "new", "first"}

-----------------------------------------------------------------------------
(* Articles *)

\* hashlib.md5(f"{title}{link}"): the digest is modelled as the pair it is
\* computed from (no collisions).
generate_article_hash(title, link) == <<title, link>>

NoScore == -1   \* 'score' not yet attached

NotPublished == [known |-> FALSE, age |-> 0]
PublishedAt(age) == [known |-> TRUE, age |-> age]

\* A published value that cannot be compared with a naive datetime (a
\* timezone-aware datetime, a string): no article made by parse_rss_entry
\* carries one, a caller of is_recent_article may pass one.
PublishedIncomparable == [known |-> TRUE, age |-> 0, comparable |-> FALSE]

\* The article dict built by parse_rss_entry; id stands for the identity of
\* the dict object.
MakeArticle(id, title, link, summary, name, weight, published) ==
    [id |-> id, title |-> title, link |-> link, summary |-> summary,
     source |-> name, source_weight |-> weight, published |-> published,
     hash |-> generate_article_hash(title, link), score |-> NoScore]

-----------------------------------------------------------------------------
(* remove_duplicates *)

\* len(title_words & seen_words) / max(len(title_words), len(seen_words)) > 0.7
\* For integers a, b > 0 the double a/b exceeds the double 0.7 iff 10a > 7b.
SimilarTitlesGE(title_words, seen_words) ==
    10 * Cardinality(title_words \cap seen_words)
        >= 7 * Max(Cardinality(title_words), Cardinality(seen_words))

SimilarTitles(title_words, seen_words) ==
    10 * Cardinality(title_words \cap seen_words)
        > 7 * Max(Cardinality(title_words), Cardinality(seen_words))

\* The division raises ZeroDivisionError when both word sets are empty.
DivisionByZero(title_words, seen_words) ==
    Max(Cardinality(title_words), Cardinality(seen_words)) = 0

DedupInit ==
    [seen_hashes |-> {}, seen_titles |-> {}, unique_articles |-> <<>>,
     raised |-> FALSE]

\* A slip that keeps only the latest title: seen_titles = {article['title']},
\* executed for every article that passes the hash check.
DedupStepLastTitleOnly(st, article) ==
    IF st.raised \/ article.hash \in st.seen_hashes THEN st
    ELSE LET title_words == TitleWords(article.title)
             dup == \E t \in st.seen_titles :
                        SimilarTitles(title_words, TitleWords(t))
         IN  IF \E t \in st.seen_titles :
                    DivisionByZero(title_words, TitleWords(t))
             THEN [st EXCEPT !.raised = TRUE]
             ELSE [seen_hashes |-> IF dup THEN st.seen_hashes
                                   ELSE st.seen_hashes \cup {article.hash},
                   seen_titles |-> {article.title},
                   unique_articles |-> IF dup THEN st.unique_articles
                                       ELSE Append(st.unique_articles, article),
                   raised |-> FALSE]

\* One iteration of the loop over articles. The inner loop walks the set
\* seen_titles in an unspecified order and stops at the first similar title;
\* the division can fail only when title_words is empty, and then no title is
\* similar, so the walk reaches every seen title: the outcome does not depend
\* on the order.
DedupStep(st, article) ==
    IF st.raised THEN st
    ELSE IF article.hash \in st.seen_hashes THEN st
    ELSE LET title_words == TitleWords(article.title)
         IN  IF \E t \in st.seen_titles :
                    DivisionByZero(title_words, TitleWords(t))
             THEN [st EXCEPT !.raised = TRUE]
             ELSE IF \E t \in st.seen_titles :
                         SimilarTitles(title_words, TitleWords(t))
             THEN st
             ELSE [seen_hashes |-> st.seen_hashes \cup {article.hash},
                   seen_titles |-> st.seen_titles \cup {article.title},
                   unique_articles |-> Append(st.unique_articles, article),
                   raised |-> FALSE]

RECURSIVE DedupLoop(_, _, _)
DedupLoop(articles, k, st) ==
    IF k > Len(articles) THEN st
    ELSE DedupLoop(articles, k + 1, DedupStep(st, articles[k]))

\* remove_duplicates(articles): [raised, unique_articles]
remove_duplicates(articles) == DedupLoop(articles, 1, DedupInit)

-----------------------------------------------------------------------------
(* rank_articles *)

\* sum(2 for kw in high_value_keywords if kw in title_lower)
keyword_score(title) ==
    2 * Cardinality({ kw \in high_value_keywords :
                        \E w \in TitleWords(title) : kw \in KeywordsIn(w) })

\* max(0, 5 - hours_old / 12) * 0.3, hours_old = age / 60, in model units:
\* ScoreScale * 0.3 * (5 - age / 720) = (ScoreScale \div 2400) * (3600 - age)
recency_term(published) ==
    IF published.known
    THEN (ScoreScale \div 2400) * Max(0, 3600 - published.age)
    ELSE 0

\* calculate_score(article), in model units
calculate_score(article) ==
      article.source_weight * ((ScoreScale * 4) \div 10)
    + recency_term(article.published)
    + Min(keyword_score(article.title), 5) * ((ScoreScale * 2) \div 10)
    + Min(article.summary.len * (ScoreScale \div 500), 5 * (ScoreScale \div 10))

\* for article in articles: article['score'] = calculate_score(article)
WithScores(articles) ==
    [k \in 1..Len(articles) |->
        [articles[k] EXCEPT !.score = calculate_score(articles[k])]]

\* A sort that puts an article ahead of the earlier articles of equal score.
InsertRankedTiesReversed(ranked, article) ==
    LET ahead == { k \in 1..Len(ranked) : ranked[k].score > article.score }
        n == Cardinality(ahead)
    IN  SubSeq(ranked, 1, n) \o <<article>> \o SubSeq(ranked, n + 1, Len(ranked))

\* sorted(..., reverse=True) is stable: an article goes behind every earlier
\* article whose score is at least its own.
InsertRanked(ranked, article) ==
    LET ahead == { k \in 1..Len(ranked) : ranked[k].score >= article.score }
        n == Cardinality(ahead)
    IN  SubSeq(ranked, 1, n) \o <<article>> \o SubSeq(ranked, n + 1, Len(ranked))

RECURSIVE SortLoop(_, _, _)
SortLoop(articles, k, ranked) ==
    IF k > Len(articles) THEN ranked
    ELSE SortLoop(articles, k + 1, InsertRanked(ranked, articles[k]))

\* sorted(articles, key=lambda x: x['score'], reverse=True)
SortedByScore(articles) == SortLoop(articles, 1, <<>>)

\* A slice that is one too long: ranked_articles[:limit + 1]
TopSliceOneMore(ranked_articles, n) ==
    SubSeq(ranked_articles, 1, Min(n + 1, Len(ranked_articles)))

\* ranked_articles[:limit]; a negative limit counts from the end
TopSlice(ranked_articles, n) ==
    IF n >= 0
    THEN SubSeq(ranked_articles, 1, Min(n, Len(ranked_articles)))
    ELSE SubSeq(ranked_articles, 1, Max(0, Len(ranked_articles) + n))

\* rank_articles(articles, limit): the returned list, and the input list as
\* the call leaves it (the same dicts, each with its score attached)
rank_articles(articles, n) ==
    [articles |-> WithScores(articles),
     top |-> TopSlice(SortedByScore(WithScores(articles)), n)]

-----------------------------------------------------------------------------
(* fetch_rss_feed, parse_rss_entry, is_recent_article *)

NoTitle == <<"No", "Title">>    \* getattr(entry, 'title', 'No Title')
NoLink == "no-link"             \* getattr(entry, 'link', '') : the empty string
NoSummary == [words |-> <<>>, len |-> 0]

\* summary[:300] + '...' if len(summary) > 300 else summary; the words of a
\* modelled summary lie within its first 300 characters.
Truncate(summary) ==
    IF summary.len > SummaryCut
    THEN [summary EXCEPT !.len = SummaryCut + 3]
    ELSE summary

\* article['published'] >= cutoff raises TypeError
ComparisonRaises(published) ==
    "comparable" \in DOMAIN published /\ ~published.comparable

\* A window that is open at its far end.
is_recent_article_strict(article) ==
    IF ~article.published.known THEN TRUE
    ELSE IF ComparisonRaises(article.published) THEN TRUE
    ELSE article.published.age < RecencyWindowMin

\* is_recent_article(article): True without a published time; otherwise
\* published >= now - timedelta(hours=48), and True when that raises
is_recent_article(article) ==
    IF ~article.published.known THEN TRUE
    ELSE IF ComparisonRaises(article.published) THEN TRUE
    ELSE article.published.age <= RecencyWindowMin

\* parse_rss_entry(entry, source): [ok, article]; ok = FALSE is None. An entry
\* with broken = TRUE is one whose fields make the body raise (a title that
\* is not a string, a malformed published_parsed): caught, None.
parse_rss_entry(entry, source, id) ==
    LET title == IF "title" \in DOMAIN entry THEN entry.title ELSE NoTitle
        link == IF "link" \in DOMAIN entry THEN entry.link ELSE NoLink
        summary == Truncate(IF "summary" \in DOMAIN entry THEN entry.summary
                            ELSE IF "description" \in DOMAIN entry
                                 THEN entry.description
                                 ELSE NoSummary)
        published == IF "published_parsed" \in DOMAIN entry
                     THEN PublishedAt(entry.published_parsed)
                     ELSE NotPublished
        none == [ok |-> FALSE]
    IN  IF entry.broken THEN none
        ELSE IF ~is_ai_related(title, summary) THEN none
        ELSE IF "name" \notin DOMAIN source THEN none   \* KeyError, caught
        ELSE [ok |-> TRUE,
              article |-> MakeArticle(id, title, link, summary, source.name,
                              IF "weight" \in DOMAIN source THEN source.weight
                              ELSE DefaultWeight,
                              published)]

\* for entry in feed.entries[:8]: ... articles.append(article)
RECURSIVE EntryLoop(_, _, _, _, _)
EntryLoop(entries, source, sidx, k, articles) ==
    IF k > Len(entries) THEN articles
    ELSE LET p == parse_rss_entry(entries[k], source, <<sidx, k>>)
         IN  EntryLoop(entries, source, sidx, k + 1,
                 IF p.ok /\ is_recent_article(p.article)
                 THEN Append(articles, p.article)
                 ELSE articles)

\* A cap that is not applied: for entry in feed.entries
CappedEntriesNoCap(entries) == entries

\* feed.entries[:8]
CappedEntries(entries) ==
    SubSeq(entries, 1, Min(EntriesPerSource, Len(entries)))

\* fetch_rss_feed(source) when the network answers with feed:
\* [raised, articles]. feed.fails is feedparser.parse raising; a source
\* without 'rss_url' raises KeyError at the same place. The handler formats
\* source['name'] and so raises KeyError itself when the name is missing.
fetch_rss_feed(source, feed, sidx) ==
    IF feed.fails \/ "rss_url" \notin DOMAIN source
    THEN [raised |-> "name" \notin DOMAIN source, articles |-> <<>>]
    ELSE [raised |-> FALSE,
          articles |-> EntryLoop(CappedEntries(feed.entries), source, sidx,
                                 1, <<>>)]

-----------------------------------------------------------------------------
(* Inputs: titles, articles, raw entries, feeds, configuration *)

SeqsUpTo(S, n) == UNION { [1..k -> S] : k \in 0..n }

\* ten words; seven of them shared (ratio exactly 0.7); eight shared (0.8)
T10 == <<"w0", "w1", "w2", "w3", "w4", "w5", "w6", "w7", "w8", "w9">>
T10s7 == <<"w0", "w1", "w2", "w3", "w4", "w5", "w6", "x1", "x2", "x3">>
T10s8 == <<"w0", "w1", "w2", "w3", "w4", "w5", "w6", "w7", "x1", "x2">>
TShort == <<"New", "AI">>
TShortLower == <<"new", "ai">>
TOther == <<"GPT", "Launch", "news">>
TEmpty == <<>>

DedupTitles == {T10, T10s7, T10s8, TShort, TShortLower, TOther, TEmpty}
DedupLinks == {"L1", "L2"}

AISummary(len) == [words |-> <<"ai", "bread">>, len |-> len]
PlainSummary(len) == [words |-> <<"bakery", "bread">>, len |-> len]

\* the articles remove_duplicates is tried on
DedupPool ==
    { MakeArticle(<<0, 0>>, t, l, AISummary(50), "S1", DefaultWeight,
                  NotPublished) : t \in DedupTitles, l \in DedupLinks }

\* the articles rank_articles is tried on: two of them tie (R3, R4), one is
\* published in the future (R5), one is older than the decay (R2)
R1 == MakeArticle(<<0, 0>>, <<"New", "AI", "Launch">>, "L1", AISummary(200),
                  "S1", 10, PublishedAt(0))
R2 == MakeArticle(<<0, 0>>, <<"GPT", "news">>, "L2", AISummary(10),
                  "S2", 2, PublishedAt(4320))
R3 == MakeArticle(<<0, 0>>, <<"ai", "again">>, "L3", AISummary(50),
                  "S2", DefaultWeight, NotPublished)
R4 == MakeArticle(<<0, 0>>, <<"llm", "bread">>, "L4", AISummary(50),
                  "S1", DefaultWeight, NotPublished)
R5 == MakeArticle(<<0, 0>>, <<"openai", "first">>, "L5", AISummary(303),
                  "S1", 2, PublishedAt(-720))
R6 == MakeArticle(<<0, 0>>, TEmpty, "L6", AISummary(0),
                  "S2", DefaultWeight, PublishedAt(2880))

RankPool == {R1, R2, R3, R4, R5, R6}

\* a list of distinct dict objects: the k-th gets identity <<0, k>>
WithIds(contents) ==
    [k \in 1..Len(contents) |-> [contents[k] EXCEPT !.id = <<0, k>>]]

ArticleLists(pool) == { WithIds(c) : c \in SeqsUpTo(pool, MaxLen) }

\* raw feed entries
EGood ==
    [broken |-> FALSE, title |-> <<"AI", "news">>, link |-> "L1",
     summary |-> PlainSummary(120), published_parsed |-> 60]
EUndated ==
    [broken |-> FALSE, link |-> "L2", description |-> AISummary(400)]
EEdge ==
    [broken |-> FALSE, title |-> TOther, link |-> "L3",
     summary |-> PlainSummary(20), published_parsed |-> RecencyWindowMin]
EBroken ==
    [broken |-> TRUE, link |-> "L4"]
EIrrelevant ==
    [broken |-> FALSE, title |-> <<"bakery", "news">>, link |-> "L5",
     summary |-> PlainSummary(80), published_parsed |-> 30]
EStale ==
    [broken |-> FALSE, title |-> TShort, link |-> "L6",
     summary |-> AISummary(80), published_parsed |-> RecencyWindowMin + 1]

AdmittedEntries == <<EGood, EUndated, EEdge>>
RejectedEntries == {EBroken, EIrrelevant, EStale}

\* the raw feed of n entries whose entries at the positions R are the
\* rejected entries rej[i], the others entries the filters admit
GenericFeed(n, R, rej) ==
    [fails |-> FALSE,
     entries |-> [i \in 1..n |->
                    IF i \in R THEN rej[i]
                    ELSE AdmittedEntries[(i % Len(AdmittedEntries)) + 1]]]

\* source descriptors: complete, without weight, without rss_url, without name
SrcFull == [name |-> "S1", rss_url |-> "U1", weight |-> 10]
SrcNoWeight == [name |-> "S2", rss_url |-> "U2"]
SrcNoUrl == [name |-> "S3", weight |-> 7]
SrcNoName == [rss_url |-> "U4", weight |-> 3]

SourcePool == {SrcFull, SrcNoWeight, SrcNoUrl, SrcNoName}

RecipientPool == {"r1@example.com", "r2@example.com"}

\* main only asks whether the recipient list is empty
MainRecipientPool == {"r1@example.com"}

\* the feeds the network may answer with during a run of main
EOverlap ==
    [broken |-> FALSE, title |-> <<"New", "GPT", "release">>, link |-> "L0",
     summary |-> AISummary(150), published_parsed |-> 120]
EUniqueA ==
    [broken |-> FALSE, title |-> <<"openai", "announce">>, link |-> "LA",
     summary |-> AISummary(100), published_parsed |-> 600]
EUniqueB ==
    [broken |-> FALSE, title |-> <<"llm", "breakthrough">>, link |-> "LB",
     summary |-> AISummary(250)]
EEmptyTitle(l) ==
    [broken |-> FALSE, title |-> TEmpty, link |-> l,
     summary |-> AISummary(60), published_parsed |-> 10]

FeedFails == [fails |-> TRUE, entries |-> <<>>]
FeedNone == [fails |-> FALSE, entries |-> <<>>]
FeedA == [fails |-> FALSE, entries |-> <<EOverlap, EUniqueA>>]
FeedB == [fails |-> FALSE, entries |-> <<EOverlap, EStale, EUniqueB>>]
FeedEmptyTitles ==
    [fails |-> FALSE, entries |-> <<EEmptyTitle("L7"), EEmptyTitle("L8")>>]
FeedOneEmptyTitle ==
    [fails |-> FALSE, entries |-> <<EEmptyTitle("L9"), EBroken, EGood>>]

\* feeds longer than the per-source cap, no two titles alike
LongWords ==
    <<"w1", "w2", "w3", "w4", "w5", "w6", "w7", "w8", "w9",
      "v1", "v2", "v3", "v4", "v5", "v6", "v7", "v8", "v9">>
ELong(k) ==
    [broken |-> FALSE, title |-> <<"AI", LongWords[k]>>,
     link |-> LongWords[k], summary |-> PlainSummary(10 * k),
     published_parsed |-> 100 * k]
FeedLongA ==
    [fails |-> FALSE, entries |-> [k \in 1..(EntriesPerSource + 1) |-> ELong(k)]]
FeedLongB ==
    [fails |-> FALSE,
     entries |-> [k \in 1..(EntriesPerSource + 1) |->
                     ELong(EntriesPerSource + 1 + k)]]

FeedPool ==
    {FeedFails, FeedNone, FeedA, FeedB, FeedEmptyTitles, FeedOneEmptyTitle,
     FeedLongA, FeedLongB}

\* a configuration file: absent, not JSON, or a JSON object holding a list
ConfigFiles(items, n) ==
    { [state |-> "missing", list |-> <<>>],
      [state |-> "invalid_json", list |-> <<>>] } \cup
    { [state |-> "ok", list |-> l] : l \in SeqsUpTo(items, n) }

-----------------------------------------------------------------------------
(* main *)

\* load_config: a missing file or invalid JSON yields the empty list
load_list(file) == IF file.state = "ok" THEN file.list ELSE <<>>

\* A check that never stops the run.
NoRecipientsIgnored(rcpts) == FALSE

\* if not recipients
NoRecipients(rcpts) == rcpts = <<>>

\* An exception nobody catches: main logs it and raises it again.
Crash(exception, where) ==
    /\ pc' = "crashed"
    /\ error' = exception
    /\ failed_in' = where

\* config = load_config(); sources = ...; recipients = ...
LoadConfig ==
    /\ pc = "start"
    /\ sources' = load_list(sources_file)
    /\ recipients' = load_list(recipients_file)
    /\ pc' = "loaded"
    /\ UNCHANGED <<sources_file, recipients_file, src_i, fetch_log,
                   all_articles, unique_articles, top_articles, limit, passes,
                   error, failed_in, notifier_calls>>
    /\ UNCHANGED <<stages, send_vars>>

\* if not recipients: logger.error(...); return
CheckRecipients ==
    /\ pc = "loaded"
    /\ pc' = IF NoRecipients(recipients) THEN "done" ELSE "fetch"
    /\ UNCHANGED <<sources_file, recipients_file, sources, recipients, src_i,
                   fetch_log, all_articles, unique_articles, top_articles,
                   limit, passes, error, failed_in, notifier_calls>>
    /\ UNCHANGED <<stages, send_vars>>

\* A list that grows at its front.
ExtendInFront(list, articles) == articles \o list

\* all_articles.extend(articles)
Extend(list, articles) == list \o articles

\* One iteration of fetch_all_news' loop: print(source['name']) comes first
\* and is outside any try; then fetch_rss_feed, whose own handler swallows a
\* failed fetch.
FetchSource(feeds) ==
    /\ pc = "fetch"
    /\ src_i < Len(sources)
    /\ LET source == sources[src_i + 1]
       IN  IF "name" \notin DOMAIN source
           THEN /\ Crash("KeyError", "fetch_all_news")
                /\ UNCHANGED <<src_i, fetch_log, all_articles>>
           ELSE \E feed \in feeds :
                  LET r == fetch_rss_feed(source, feed, src_i + 1)
                  IN  /\ src_i' = src_i + 1
                      /\ fetch_log' = Append(fetch_log,
                             [source |-> source, feed |-> feed,
                              articles |-> r.articles])
                      /\ all_articles' = Extend(all_articles, r.articles)
                      /\ UNCHANGED <<pc, error, failed_in>>
    /\ UNCHANGED <<sources_file, recipients_file, sources, recipients,
                   unique_articles, top_articles, limit, passes,
                   notifier_calls>>
    /\ UNCHANGED <<stages, send_vars>>

\* A check that never stops the run.
NoArticlesIgnored(articles) == FALSE

\* if not all_articles
NoArticles(articles) == articles = <<>>

\* return all_articles; if not all_articles: logger.warning(...); return
FetchReturn ==
    /\ pc = "fetch"
    /\ src_i = Len(sources)
    /\ stages' = Append(stages, "fetch")
    /\ pc' = IF NoArticles(all_articles) THEN "done" ELSE "dedupe"
    /\ UNCHANGED <<sources_file, recipients_file, sources, recipients, src_i,
                   fetch_log, all_articles, unique_articles, top_articles,
                   limit, passes, error, failed_in, notifier_calls>>
    /\ UNCHANGED send_vars

\* unique_articles = remove_duplicates(all_articles)
Dedupe ==
    /\ pc = "dedupe"
    /\ LET r == remove_duplicates(all_articles)
       IN  IF r.raised
           THEN /\ Crash("ZeroDivisionError", "remove_duplicates")
                /\ UNCHANGED <<unique_articles, passes, stages>>
           ELSE /\ unique_articles' = r.unique_articles
                /\ passes' = passes + 1
                /\ stages' = Append(stages, "dedupe")
                /\ pc' = "rank"
                /\ UNCHANGED <<error, failed_in>>
    /\ UNCHANGED <<sources_file, recipients_file, sources, recipients, src_i,
                   fetch_log, all_articles, top_articles, limit,
                   notifier_calls>>
    /\ UNCHANGED send_vars

\* remove_duplicates(remove_duplicates(X)): the list a first call returned
\* is handed to a second call
DedupeAgain ==
    /\ pc = "rank"
    /\ passes = 1
    /\ LET r == remove_duplicates(unique_articles)
       IN  IF r.raised
           THEN /\ Crash("ZeroDivisionError", "remove_duplicates")
                /\ UNCHANGED <<all_articles, unique_articles, passes,
                                 stages>>
           ELSE /\ all_articles' = unique_articles
                /\ unique_articles' = r.unique_articles
                /\ passes' = passes + 1
                /\ stages' = Append(stages, "dedupe")
                /\ UNCHANGED <<pc, error, failed_in>>
    /\ UNCHANGED <<sources_file, recipients_file, sources, recipients, src_i,
                   fetch_log, top_articles, limit, notifier_calls>>
    /\ UNCHANGED send_vars

\* top_articles = rank_articles(unique_articles, limit): the dicts of
\* unique_articles are the ones that get their score
Rank ==
    /\ pc = "rank"
    /\ LET r == rank_articles(unique_articles, limit)
       IN  /\ unique_articles' = r.articles
           /\ top_articles' = r.top
    /\ stages' = Append(stages, "rank")
    /\ pc' = "send"
    /\ UNCHANGED <<sources_file, recipients_file, sources, recipients, src_i,
                   fetch_log, all_articles, limit, passes, error, failed_in,
                   notifier_calls>>
    /\ UNCHANGED send_vars

\* success = send_daily_digest(top_articles, recipients); it catches what its
\* body raises and returns a bool
Send ==
    /\ pc = "send"
    /\ notifier_calls' = Append(notifier_calls,
           [articles |-> top_articles, recipients |-> recipients])
    /\ stages' = Append(stages, "send")
    /\ pc' = "done"
    /\ UNCHANGED <<sources_file, recipients_file, sources, recipients, src_i,
                   fetch_log, all_articles, unique_articles, top_articles,
                   limit, passes, error, failed_in>>
    /\ UNCHANGED send_vars

\* fetch_rss_feed(source) called on its own, for one source
FetchRssFeed ==
    /\ pc = "fetch_rss_feed"
    /\ \E n \in 0..MaxFeedLen, fails \in BOOLEAN :
        \E R \in { Q \in SUBSET (1..n) : Cardinality(Q) <= MaxRejected } :
         \E rej \in [R -> RejectedEntries] :
         LET feed == IF fails THEN FeedFails ELSE GenericFeed(n, R, rej)
             r == fetch_rss_feed(sources[1], feed, 1)
         IN  /\ fails => n = 0
             /\ fetch_log' = <<[source |-> sources[1], feed |-> feed,
                                articles |-> r.articles]>>
             /\ all_articles' = r.articles
             /\ IF r.raised
                THEN Crash("KeyError", "fetch_rss_feed")
                ELSE pc' = "done" /\ UNCHANGED <<error, failed_in>>
    /\ src_i' = 1
    /\ UNCHANGED <<sources_file, recipients_file, sources, recipients,
                   unique_articles, top_articles, limit, passes,
                   notifier_calls>>
    /\ UNCHANGED <<stages, send_vars>>

\* is_recent_article(article) called on its own, for one article
IsRecentArticle ==
    /\ pc = "is_recent_article"
    /\ returned' = <<is_recent_article(all_articles[1])>>
    /\ pc' = "done"
    /\ UNCHANGED <<sources_file, recipients_file, sources, recipients, src_i,
                   fetch_log, all_articles, unique_articles, top_articles,
                   limit, passes, error, failed_in, notifier_calls, stages,
                   gmail_env, msg_to, rcpt_i, successful_sends, sendmail_log,
                   server>>

-----------------------------------------------------------------------------
(* send_daily_digest *)

\* Everything up to the loop: the credentials check, which returns False
\* without raising, then the building of the message and server =
\* smtplib.SMTP(...); server.starttls(); server.login(...), where anything
\* raised goes to the outer handler, which returns False.
SendSetup ==
    /\ pc = "send_daily_digest"
    /\ IF ~gmail_env
       THEN /\ returned' = <<FALSE>>
            /\ pc' = "done"
            /\ UNCHANGED <<server, successful_sends, msg_to>>
       ELSE \E setup \in {"ok", "raises"} :
              IF setup = "raises"
              THEN /\ returned' = <<FALSE>>
                   /\ pc' = "done"
                   /\ UNCHANGED <<server, successful_sends, msg_to>>
              ELSE /\ server' = "connected"
                   /\ successful_sends' = 0
                   /\ msg_to' = <<>>
                   /\ pc' = "send_loop"
                   /\ UNCHANGED returned
    /\ UNCHANGED <<sources_file, recipients_file, sources, recipients, src_i,
                   fetch_log, all_articles, unique_articles, top_articles,
                   limit, passes, error, failed_in, notifier_calls, stages,
                   gmail_env, rcpt_i, sendmail_log>>

\* msg['To'] = recipient: a header is added, none is replaced
SetTo(headers, recipient) == Append(headers, recipient)

\* del msg['To']: every To header goes
DelTo(headers) == <<>>

\* One iteration of the loop over recipients.  server.sendmail returns or
\* raises; the inner handler prints what was raised and the loop goes on.
\* del msg['To'] is the last statement of the try block, after sendmail.
SendOne ==
    /\ pc = "send_loop"
    /\ rcpt_i < Len(recipients)
    /\ \E sendmail \in {"ok", "raises"} :
         LET recipient == recipients[rcpt_i + 1]
             headers == SetTo(msg_to, recipient)
         IN  /\ sendmail_log' = Append(sendmail_log,
                    [recipient |-> recipient, to |-> headers,
                     ok |-> sendmail = "ok"])
             /\ IF sendmail = "ok"
                THEN /\ successful_sends' = successful_sends + 1
                     /\ msg_to' = DelTo(headers)
                ELSE /\ msg_to' = headers
                     /\ UNCHANGED successful_sends
    /\ rcpt_i' = rcpt_i + 1
    /\ UNCHANGED <<pc, sources_file, recipients_file, sources, recipients,
                   src_i, fetch_log, all_articles, unique_articles,
                   top_articles, limit, passes, error, failed_in,
                   notifier_calls, stages, gmail_env, server, returned>>

\* server.quit() stands after the loop, inside the outer try only: when it
\* raises, the outer handler returns False; otherwise
\* return successful_sends > 0
SendQuit ==
    /\ pc = "send_loop"
    /\ rcpt_i = Len(recipients)
    /\ \E quit \in {"ok", "raises"} :
         IF quit = "raises"
         THEN /\ returned' = <<FALSE>>
              /\ server' = "lost"
         ELSE /\ returned' = <<successful_sends > 0>>
              /\ server' = "quit"
    /\ pc' = "done"
    /\ UNCHANGED <<sources_file, recipients_file, sources, recipients, src_i,
                   fetch_log, all_articles, unique_articles, top_articles,
                   limit, passes, error, failed_in, notifier_calls, stages,
                   gmail_env, msg_to, rcpt_i, successful_sends, sendmail_log>>

-----------------------------------------------------------------------------
(* Specifications *)

Idle ==
    /\ src_i = 0 /\ fetch_log = <<>> /\ top_articles = <<>>
    /\ passes = 0 /\ error = "none" /\ failed_in = "none"
    /\ notifier_calls = <<>> /\ stages = <<>>

\* send_daily_digest has not been entered
SendIdle ==
    /\ gmail_env = TRUE /\ msg_to = <<>> /\ rcpt_i = 0
    /\ successful_sends = 0 /\ sendmail_log = <<>> /\ server = "none"
    /\ returned = <<>>

NoFiles ==
    /\ sources_file = [state |-> "missing", list |-> <<>>]
    /\ recipients_file = [state |-> "missing", list |-> <<>>]

\* a run of main
Init ==
    /\ pc = "start"
    /\ sources_file \in ConfigFiles(SourcePool, MaxSources)
    /\ recipients_file \in ConfigFiles(MainRecipientPool, MaxRecipients)
    /\ sources = <<>> /\ recipients = <<>>
    /\ all_articles = <<>> /\ unique_articles = <<>>
    /\ limit = DigestLimit
    /\ Idle /\ SendIdle

Next ==
    \/ LoadConfig
    \/ CheckRecipients
    \/ FetchSource(FeedPool)
    \/ FetchReturn
    \/ Dedupe
    \/ Rank
    \/ Send

Spec == Init /\ [][Next]_vars

\* remove_duplicates on every article list, and on its own output
InitDedup ==
    /\ pc = "dedupe"
    /\ NoFiles
    /\ sources = <<>> /\ recipients = <<>>
    /\ all_articles \in ArticleLists(DedupPool)
    /\ unique_articles = <<>>
    /\ limit = DigestLimit
    /\ Idle /\ SendIdle

NextDedup == Dedupe \/ DedupeAgain

SpecDedup == InitDedup /\ [][NextDedup]_vars

\* rank_articles on every article list and limit
InitRank ==
    /\ pc = "rank"
    /\ NoFiles
    /\ sources = <<>> /\ recipients = <<>>
    /\ all_articles = <<>>
    /\ unique_articles \in ArticleLists(RankPool)
    /\ limit \in 0..MaxLimit
    /\ Idle /\ SendIdle

NextRank == Rank

SpecRank == InitRank /\ [][NextRank]_vars

\* fetch_rss_feed on every source descriptor and feed
InitFetch ==
    /\ pc = "fetch_rss_feed"
    /\ NoFiles
    /\ sources \in { <<s>> : s \in SourcePool }
    /\ recipients = <<>>
    /\ all_articles = <<>> /\ unique_articles = <<>>
    /\ limit = DigestLimit
    /\ Idle /\ SendIdle

NextFetch == FetchRssFeed

SpecFetch == InitFetch /\ [][NextFetch]_vars

\* the published values is_recent_article is tried on: none, one that
\* cannot be compared, and times within MaxSkew minutes of now and of the
\* cutoff, on both sides of each
PublishedPool ==
    {NotPublished, PublishedIncomparable} \cup
    { PublishedAt(a) : a \in (0 - MaxSkew)..MaxSkew } \cup
    { PublishedAt(a) :
        a \in (RecencyWindowMin - MaxSkew)..(RecencyWindowMin + MaxSkew) }

\* is_recent_article on one article
InitRecent ==
    /\ pc = "is_recent_article"
    /\ NoFiles
    /\ sources = <<>> /\ recipients = <<>>
    /\ \E p \in PublishedPool, t \in {TShort, TEmpty} :
         all_articles = <<MakeArticle(<<0, 1>>, t, "L1", AISummary(50),
                                      "S1", DefaultWeight, p)>>
    /\ unique_articles = <<>>
    /\ limit = DigestLimit
    /\ Idle /\ SendIdle

NextRecent == IsRecentArticle

SpecRecent == InitRecent /\ [][NextRecent]_vars

\* send_daily_digest on every recipient list, with and without credentials
InitSend ==
    /\ pc = "send_daily_digest"
    /\ NoFiles
    /\ sources = <<>>
    /\ recipients \in SeqsUpTo(RecipientPool, MaxSendList)
    /\ all_articles = <<>> /\ unique_articles = <<>>
    /\ limit = DigestLimit
    /\ Idle
    /\ gmail_env \in BOOLEAN
    /\ msg_to = <<>> /\ rcpt_i = 0 /\ successful_sends = 0
    /\ sendmail_log = <<>> /\ server = "none" /\ returned = <<>>

NextSend == SendSetup \/ SendOne \/ SendQuit

SpecSend == InitSend /\ [][NextSend]_vars

-----------------------------------------------------------------------------
(* Vocabulary of the properties *)

Ids(articles) == { articles[k].id : k \in 1..Len(articles) }

\* the position of the article with identity id in articles
PosOf(articles, id) == CHOOSE k \in 1..Len(articles) : articles[k].id = id

\* sub is articles with some of its elements left out, the rest unmodified
\* and in the same order
IsSubsequence(sub, articles) ==
    /\ \A k \in 1..Len(sub) :
         /\ sub[k].id \in Ids(articles)
         /\ sub[k] = articles[PosOf(articles, sub[k].id)]
    /\ \A k, m \in 1..Len(sub) :
         k < m => PosOf(articles, sub[k].id) < PosOf(articles, sub[m].id)

\* near-duplicate titles: |A \cap B| / max(|A|, |B|) strictly above 7/10
NearDuplicate(t1, t2) ==
    LET A == TitleWords(t1)
        B == TitleWords(t2)
    IN  /\ Max(Cardinality(A), Cardinality(B)) > 0
        /\ 10 * Cardinality(A \cap B) > 7 * Max(Cardinality(A), Cardinality(B))

\* titles whose ratio is exactly 7/10
RatioExactlySeventy(t1, t2) ==
    LET A == TitleWords(t1)
        B == TitleWords(t2)
    IN  /\ Max(Cardinality(A), Cardinality(B)) > 0
        /\ 10 * Cardinality(A \cap B) = 7 * Max(Cardinality(A), Cardinality(B))

\* the first remove_duplicates call is over: it returned or it raised
DedupeReturned == pc = "rank" /\ passes = 1
DedupeRaised == pc = "crashed" /\ failed_in = "remove_duplicates" /\ passes = 0

-----------------------------------------------------------------------------
(* C1 - C3: remove_duplicates, under SpecDedup *)

\* C1: deduplication is idempotent: a second remove_duplicates call on the
\* list a first call returned does not raise and returns that same list, the
\* same articles in the same order.
C1_DedupIdempotent ==
    /\ passes = 2 => unique_articles = all_articles
    /\ ~(pc = "crashed" /\ passes = 1)

\* the second call has run on a list from which the first call had dropped
\* the second of three articles
C1_Witness ==
    /\ passes = 2
    /\ Len(unique_articles) = 2
    /\ unique_articles[2].id = <<0, 3>>

\* C2: for every input list the output is a subsequence of the input, every
\* dropped article is an exact or near duplicate of an earlier kept article,
\* and an input without shared fingerprints or near-duplicate titles comes
\* back unchanged.
C2_FirstSeenWins ==
    (DedupeReturned \/ DedupeRaised) =>
        /\ IsSubsequence(unique_articles, all_articles)
        /\ \A j \in 1..Len(all_articles) :
             all_articles[j].id \notin Ids(unique_articles) =>
                \E i \in 1..(j - 1) :
                    /\ all_articles[i].id \in Ids(unique_articles)
                    /\ \/ all_articles[i].hash = all_articles[j].hash
                       \/ NearDuplicate(all_articles[i].title,
                                        all_articles[j].title)
        /\ (\A i, j \in 1..Len(all_articles) :
                i < j => /\ all_articles[i].hash # all_articles[j].hash
                         /\ ~NearDuplicate(all_articles[i].title,
                                           all_articles[j].title))
             => unique_articles = all_articles

\* What C2 says, of the calls that return.
C2_FirstSeenWinsWhenReturned == DedupeRaised \/ C2_FirstSeenWins

-----------------------------------------------------------------------------
(* C4, C5: rank_articles, under SpecRank *)

\* rank_articles has returned; unique_articles is its input list, each
\* article with the score the call gave it
RankReturned == pc = "send"

\* C4: rank_articles(X, k) returns at most k articles, in non-increasing
\* score order, each an article of X and none twice; all of X when X has no
\* more than k articles, and otherwise k articles none of which scores below
\* an article left out.
C4_TopKByScore ==
    RankReturned =>
        /\ Len(top_articles) <= limit
        /\ \A i, j \in 1..Len(top_articles) :
             i < j => /\ top_articles[i].score >= top_articles[j].score
                      /\ top_articles[i].id # top_articles[j].id
        /\ \A i \in 1..Len(top_articles) :
             /\ top_articles[i].id \in Ids(unique_articles)
             /\ top_articles[i] =
                    unique_articles[PosOf(unique_articles, top_articles[i].id)]
        /\ Len(top_articles) = Min(limit, Len(unique_articles))
        /\ \A i \in 1..Len(top_articles), j \in 1..Len(unique_articles) :
             unique_articles[j].id \notin Ids(top_articles) =>
                top_articles[i].score >= unique_articles[j].score

\* three articles ranked with limit 2: the cut left one out and the order
\* of the two returned is not their input order
C4_Witness ==
    /\ RankReturned
    /\ limit = 2
    /\ Len(unique_articles) = 3
    /\ Len(top_articles) = 2
    /\ PosOf(unique_articles, top_articles[1].id)
         > PosOf(unique_articles, top_articles[2].id)

\* C5: ranking is stable on ties: of two input articles with equal score the
\* earlier one comes first in the output, and the later one is returned only
\* if the earlier one is.
C5_StableOnTies ==
    RankReturned =>
        \A i, j \in 1..Len(unique_articles) :
            ( /\ i < j
              /\ unique_articles[i].score = unique_articles[j].score
              /\ unique_articles[j].id \in Ids(top_articles) )
            => /\ unique_articles[i].id \in Ids(top_articles)
               /\ PosOf(top_articles, unique_articles[i].id)
                    < PosOf(top_articles, unique_articles[j].id)

\* two articles tie and the cut falls between them: the earlier one is in
\* the output, the later one is not
C5_Witness ==
    /\ RankReturned
    /\ \E i, j \in 1..Len(unique_articles) :
         /\ i < j
         /\ unique_articles[i].score = unique_articles[j].score
         /\ unique_articles[i].title # unique_articles[j].title
         /\ unique_articles[i].id \in Ids(top_articles)
         /\ unique_articles[j].id \notin Ids(top_articles)

-----------------------------------------------------------------------------
(* C6 - C10: the run of main (Spec) and fetch_rss_feed (SpecFetch) *)

\* C6: no failure is fatal mid-pipeline: with recipients configured, for
\* every article list the fetch stage produces, deduplication and ranking do
\* not raise, so the run is never ended by an exception of theirs.
C6_DedupeAndRankNeverRaise ==
    (recipients # <<>> /\ all_articles # <<>>) =>
        ~(pc = "crashed" /\ failed_in \in {"remove_duplicates", "rank_articles"})

\* the raw entries a source yields: none when the fetch fails (the transport
\* raises, or the descriptor has no feed URL to fetch)
FetchFailed(source, feed) == feed.fails \/ "rss_url" \notin DOMAIN source
RawEntries(source, feed) ==
    IF FetchFailed(source, feed) THEN <<>> ELSE feed.entries

\* the title and summary the filters see
EntryTitle(entry) == IF "title" \in DOMAIN entry THEN entry.title ELSE NoTitle
EntrySummary(entry) ==
    IF "summary" \in DOMAIN entry THEN entry.summary
    ELSE IF "description" \in DOMAIN entry THEN entry.description
    ELSE NoSummary

\* an entry that parses without error for this source, passes the Relevance
\* Filter and passes the Recency Filter
Admitted(entry, source) ==
    /\ ~entry.broken
    /\ "name" \in DOMAIN source
    /\ is_ai_related(EntryTitle(entry), Truncate(EntrySummary(entry)))
    /\ \/ "published_parsed" \notin DOMAIN entry
       \/ entry.published_parsed <= RecencyWindowMin

\* the positions of the raw entries that become articles
AdmittedPositions(source, feed) ==
    { i \in 1..Len(RawEntries(source, feed)) :
        i <= EntriesPerSource /\ Admitted(RawEntries(source, feed)[i], source) }

\* articles are exactly the articles of the admitted positions of the feed
\* of source number sidx, in feed order
ExactlyAdmitted(articles, source, feed, sidx) ==
    /\ Len(articles) = Cardinality(AdmittedPositions(source, feed))
    /\ \A m \in 1..Len(articles) :
         /\ articles[m].id[1] = sidx
         /\ articles[m].id[2] \in AdmittedPositions(source, feed)
         /\ articles[m] = parse_rss_entry(feed.entries[articles[m].id[2]],
                                          source, articles[m].id).article
    /\ \A m, n \in 1..Len(articles) :
         m < n => articles[m].id[2] < articles[n].id[2]

RECURSIVE Concat(_, _)
Concat(f, n) == IF n = 0 THEN <<>> ELSE Concat(f, n - 1) \o f[n]

\* fetch_all_news is over: it returned or it raised
FetchAllOver ==
    /\ load_list(recipients_file) # <<>>
    /\ pc \notin {"start", "loaded", "fetch"}

\* C7: fetch_all_news attempts every source exactly once in configured
\* order, a source whose fetch fails contributes zero articles, and the
\* combined list is the concatenation, in source order, of what the sources
\* that did not fail contributed.
C7_EverySourceAttemptedOnce ==
    FetchAllOver =>
        /\ Len(fetch_log) = Len(sources)
        /\ \A k \in 1..Len(fetch_log) :
             /\ fetch_log[k].source = sources[k]
             /\ FetchFailed(fetch_log[k].source, fetch_log[k].feed)
                  => fetch_log[k].articles = <<>>
             /\ ExactlyAdmitted(fetch_log[k].articles, fetch_log[k].source,
                                fetch_log[k].feed, k)
        /\ all_articles =
             Concat([k \in 1..Len(fetch_log) |-> fetch_log[k].articles],
                    Len(fetch_log))

\* What C7 says, of the source lists in which every descriptor has a name.
C7_WhenEverySourceIsNamed ==
    (\A k \in 1..Len(sources) : "name" \in DOMAIN sources[k])
        => C7_EverySourceAttemptedOnce

\* fetch_rss_feed, called on its own, is over
FetchRssFeedOver ==
    pc \in {"done", "crashed"} /\ Len(fetch_log) = 1 /\ src_i = 1

\* C8: the articles a source contributes are exactly, in feed order, those
\* among its first 8 raw entries that parse without error, pass the
\* Relevance Filter and pass the Recency Filter.
C8_FirstEightAdmitted ==
    FetchRssFeedOver =>
        /\ all_articles = fetch_log[1].articles
        /\ ExactlyAdmitted(fetch_log[1].articles, fetch_log[1].source,
                           fetch_log[1].feed, 1)

\* a feed of nine entries, two of the first eight rejected and the ninth one
\* that the filters would admit: six articles
C8_Witness ==
    /\ FetchRssFeedOver
    /\ Len(fetch_log[1].feed.entries) = 9
    /\ Admitted(fetch_log[1].feed.entries[9], fetch_log[1].source)
    /\ ~FetchFailed(fetch_log[1].source, fetch_log[1].feed)
    /\ Len(all_articles) = 6

\* C9: a malformed source descriptor (one without its name, or without its
\* feed URL) is skipped and the run goes on with the other sources: it does
\* not end the run with an exception out of fetch_all_news.
C9_MalformedSourceSkipped ==
    (\E k \in 1..Len(sources) :
        "name" \notin DOMAIN sources[k] \/ "rss_url" \notin DOMAIN sources[k])
        => ~(pc = "crashed" /\ failed_in = "fetch_all_news")

\* C10: with an empty recipient list the run is a hard stop: nothing is
\* fetched, the notifier is never invoked and the run ends at the check.
C10_NoRecipientsNoSend ==
    load_list(recipients_file) = <<>> =>
        /\ notifier_calls = <<>>
        /\ fetch_log = <<>>
        /\ pc \in {"start", "loaded", "done"}

\* a run that loaded sources but no recipient and has ended
C10_Witness ==
    /\ pc = "done"
    /\ recipients_file.state = "ok"
    /\ recipients = <<>>
    /\ Len(sources) = MaxSources
    /\ \A k \in 1..Len(sources) :
         {"name", "rss_url"} \subseteq DOMAIN sources[k]

\* the session was opened and the function has returned
SendReturned == pc = "done" /\ server # "none"

\* the recipients server.sendmail was called for, in call order
Attempted == [k \in 1..Len(sendmail_log) |-> sendmail_log[k].recipient]

\* at least one call of server.sendmail returned
SomeSendSucceeded == \E k \in 1..Len(sendmail_log) : sendmail_log[k].ok

\* C11: once the mail session is open, every recipient is attempted exactly
\* once, in list order, whatever happened to the earlier ones, and the
\* function returns True exactly when at least one send succeeded.
C11_SuccessIffOneSent ==
    SendReturned =>
        /\ Attempted = recipients
        /\ returned = <<SomeSendSucceeded>>

\* The attempts themselves are as C11 says.
C11_EveryRecipientAttemptedInOrder ==
    SendReturned => Attempted = recipients

\* The return value is as C11 says in the runs where server.quit() returns.
C11_WhenQuitReturns ==
    (pc = "done" /\ server = "quit") => returned = <<SomeSendSucceeded>>

-----------------------------------------------------------------------------
(* C12: main from the fetch to the notifier, under Spec *)

\* what the k-th configured source yielded
Yielded(k) == fetch_log[k].articles

\* the articles share neither fingerprint nor near-duplicate title
Unrelated(a, b) ==
    /\ a.hash # b.hash
    /\ a.title # TEmpty /\ b.title # TEmpty
    /\ ~NearDuplicate(a.title, b.title)

\* Yielded(1)[i] and Yielded(2)[j] are one article, carried by both sources;
\* the other article of each source is carried by that source only
OverlapAt(i, j) ==
    /\ Yielded(1)[i].hash = Yielded(2)[j].hash
    /\ Yielded(1)[i].link = Yielded(2)[j].link
    /\ Unrelated(Yielded(1)[3 - i], Yielded(2)[3 - j])
    /\ Unrelated(Yielded(1)[3 - i], Yielded(1)[i])
    /\ Unrelated(Yielded(2)[3 - j], Yielded(2)[j])

\* two sources were configured and fetched, each yielded two articles (each
\* therefore relevant and recent), one of them the overlapping article
TwoSourcesOneOverlap ==
    /\ Len(sources) = 2 /\ Len(fetch_log) = 2
    /\ Len(Yielded(1)) = 2 /\ Len(Yielded(2)) = 2
    /\ \E i, j \in 1..2 : OverlapAt(i, j)

\* the run is over
RunOver == pc \in {"done", "crashed"}

-----------------------------------------------------------------------------
(* C13: is_recent_article, under SpecRecent *)

\* is_recent_article has returned
RecentReturned == pc = "done" /\ returned # <<>>

\* C13: is_recent_article is True for an article without a published time,
\* True when published is at or after now - 48 h (47 h 59 min ago, and the
\* cutoff itself), False when it is earlier (48 h 01 min ago), and True when
\* the comparison raises.
C13_RecencyWindow ==
    RecentReturned =>
        LET published == all_articles[1].published
            hours48 == 48 * 60
        IN  /\ ~published.known => returned = <<TRUE>>
            /\ (published.known /\ ComparisonRaises(published))
                  => returned = <<TRUE>>
            /\ (published.known /\ ~ComparisonRaises(published))
                  => returned = <<published.age <= hours48>>

\* the article published 48 h 01 min ago was found not recent
C13_Witness ==
    /\ RecentReturned
    /\ all_articles[1].published = PublishedAt(48 * 60 + 1)
    /\ returned = <<FALSE>>

\* The other three cases of C13 are reached as well.
C13_WitnessAbsent ==
    RecentReturned /\ all_articles[1].published = NotPublished
        /\ returned = <<TRUE>>
C13_WitnessInside ==
    RecentReturned /\ all_articles[1].published = PublishedAt(48 * 60 - 1)
        /\ returned = <<TRUE>>
C13_WitnessRaises ==
    RecentReturned /\ all_articles[1].published = PublishedIncomparable
        /\ returned = <<TRUE>>

-----------------------------------------------------------------------------
(* C14: the recency component of the score, under SpecRank *)

\* one point of the unweighted recency term, as it shows in the score:
\* 0.3 in the code's units
RecencyPoint == (ScoreScale * 3) \div 10

\* what recency added to the score article carries: the score less its
\* three other components
RecencyPart(article) ==
    article.score
    - article.source_weight * ((ScoreScale * 4) \div 10)
    - Min(keyword_score(article.title), 5) * ((ScoreScale * 2) \div 10)
    - Min(article.summary.len * (ScoreScale \div 500), 5 * (ScoreScale \div 10))

\* 5 - hours_old / 12 points, for hours_old = age / 60
LinearDecay(age) == (RecencyPoint * (60 * 60 - age)) \div (12 * 60)

\* the recency component of article is as C14 says
RecencyBounded(article) ==
    LET part == RecencyPart(article)
        published == article.published
    IN  /\ 0 <= part /\ part <= 5 * RecencyPoint
        /\ ~published.known => part = 0
        /\ (published.known /\ published.age >= 60 * 60) => part = 0
        /\ (published.known /\ published.age >= 0 /\ published.age <= 60 * 60)
              => part = LinearDecay(published.age)

\* C14: the recency component is bounded: for every article with a known
\* published time, later than now included, the unweighted term lies between
\* 0 and 5 (between 0 and 1.5 in the score) and decays linearly to 0 at 60
\* hours; for an article without published time it is 0.
C14_RecencyBounded ==
    RankReturned =>
        \A k \in 1..Len(unique_articles) : RecencyBounded(unique_articles[k])

\* C14 holds of every article that is not published later than now.
C14_WhenNotInTheFuture ==
    RankReturned =>
        \A k \in 1..Len(unique_articles) :
            (unique_articles[k].published.known
                => unique_articles[k].published.age >= 0)
            => RecencyBounded(unique_articles[k])

-----------------------------------------------------------------------------
(* C15: the To header of each message, under SpecSend *)

\* C15: the message handed to the server for recipient r carries exactly one
\* To header, with value r; the address of an earlier recipient whose send
\* failed is in no message sent to a later recipient.
C15_OneToHeader ==
    \A k \in 1..Len(sendmail_log) :
        sendmail_log[k].to = <<sendmail_log[k].recipient>>

\* C15 holds of every message up to and including the first send that fails.
C15_UntilFirstFailure ==
    \A k \in 1..Len(sendmail_log) :
        (\A j \in 1..(k - 1) : sendmail_log[j].ok)
            => sendmail_log[k].to = <<sendmail_log[k].recipient>>

-----------------------------------------------------------------------------
(* C16: the order of the steps of main, under Spec *)

\* the steps of a run that gets as far as the notifier
Pipeline == <<"fetch", "dedupe", "rank", "send">>

\* C16: in every run of main the notifier is invoked at most once, only
\* after fetch, deduplication and ranking completed in that order, and only
\* with a non-empty list of at most 10 articles; when the fetch yields no
\* article the run ends without a send.
C16_SendOnceAfterPipeline ==
    /\ Len(notifier_calls) <= 1
    /\ Len(stages) <= Len(Pipeline)
    /\ stages = SubSeq(Pipeline, 1, Len(stages))
    /\ notifier_calls # <<>> =>
         /\ stages = Pipeline
         /\ passes = 1
         /\ notifier_calls[1].articles = top_articles
         /\ top_articles = rank_articles(remove_duplicates(all_articles)
                                            .unique_articles, 10).top
         /\ Len(notifier_calls[1].articles) >= 1
         /\ Len(notifier_calls[1].articles) <= 10
    /\ notifier_calls = <<>> => (Len(stages) < Len(Pipeline))
    /\ (stages # <<>> /\ all_articles = <<>>) =>
         /\ pc = "done"
         /\ stages = <<"fetch">>
         /\ notifier_calls = <<>>

\* a run that fetched sixteen distinct articles and handed ten to the
\* notifier
C16_Witness ==
    /\ pc = "done"
    /\ Len(notifier_calls) = 1
    /\ Len(unique_articles) = 2 * EntriesPerSource
    /\ Len(notifier_calls[1].articles) = 10

\* a run whose fetch completed and yielded nothing
C16_WitnessNothingFetched ==
    /\ pc = "done"
    /\ stages = <<"fetch">>
    /\ Len(fetch_log) = MaxSources
    /\ all_articles = <<>>

====
